---- MODULE Spec2Model ----
(***************************************************************************)
(* A model of ComicMaker02.py: the page composer (layout_panels_on_page),  *)
(* the greedy word wrap (wrap_text) and the two export paths               *)
(* (save_pages_as_images, save_pages_to_pdf).                              *)
(*                                                                         *)
(* Images are modelled by their size (and, for pages, an identity and a    *)
(* mode); a page under composition is the sequence of pastes made onto it. *)
(* The file system is a function from paths to file contents.              *)
(***************************************************************************)
EXTENDS Integers, Sequences, FiniteSets, TLC

VARIABLES
    pc,          \* "ready" before a call; afterwards "done", or for the export
                 \* calls "saved_images" / "saved_pdf"
    \* ---- layout_panels_on_page ----
    panels,      \* argument: sequence of panel sizes <<w, h>>
    page_size,   \* argument: <<page_w, page_h>>
    margin,      \* argument
    gutter,      \* argument
    grid,        \* argument: <<cols, rows>>
    page,        \* the pastes made onto the returned page, in order
    \* ---- wrap_text ----
    text,        \* argument: sequence of characters
    max_width,   \* argument
    lines,       \* returned list of lines (each a sequence of characters)
    \* ---- export ----
    pages,       \* argument: sequence of page images [id, mode]
    basename,    \* argument of save_pages_as_images
    fs,          \* file system: path -> file content
    dirs,        \* directories that exist
    writes,      \* paths written by the calls so far, in order
    returned,    \* value returned by the last call
    raised       \* exception raised by the last call, or "none"

vars == <<pc, panels, page_size, margin, gutter, grid, page,
          text, max_width, lines, pages, basename, fs, dirs, writes,
          returned, raised>>

layoutVars == <<panels, page_size, margin, gutter, grid, page>>
wrapVars   == <<text, max_width, lines>>
exportVars == <<pages, basename, fs, dirs, writes, returned, raised>>

-----------------------------------------------------------------------------
(* Program constants *)

PAGE_WIDTH == 2480
PAGE_HEIGHT == 3508
DEFAULT_MARGIN == 80
DEFAULT_GUTTER == 20

(* Bounds of the model *)

MaxCols == 2
MaxRows == 2
MaxMargin == 1
MaxGutter == 1
MaxPanels == 5

-----------------------------------------------------------------------------
(* Helpers *)

Abs(n) == IF n < 0 THEN -n ELSE n
Max(a, b) == IF a >= b THEN a ELSE b
CeilDiv(a, b) == -((-a) \div b)

-----------------------------------------------------------------------------
(* layout_panels_on_page *)

\* pw / ph: (page - 2*margin - (n-1)*gutter) // n
CellSizeCeil(total, m, g, n) == CeilDiv(total - 2*m - (n-1)*g, n)
CellSize(total, m, g, n) == (total - 2*m - (n-1)*g) \div n

pw == CellSize(page_size[1], margin, gutter, grid[1])
ph == CellSize(page_size[2], margin, gutter, grid[2])

\* Image.thumbnail's round_aspect(number, key) for number = num/den:
\* max(min(floor, ceil, key = key), 1); keyFloorLeq says key(floor) <= key(ceil),
\* in which case min() returns its first argument, the floor.
round_aspect(num, den, keyFloorLeq) ==
    Max(IF keyFloorLeq THEN num \div den ELSE CeilDiv(num, den), 1)

\* panel_thumb.thumbnail((x, y)) on an image of size <<w, h>>: the size the
\* copy has afterwards.  Unchanged when the box already holds the image;
\* otherwise one side is the box side and the other is y*aspect (or x/aspect)
\* rounded to whichever of floor and ceil keeps the aspect ratio best.
thumbnailStretch(size, box) == box
thumbnail(size, box) ==
    LET w == size[1]  h == size[2]  x == box[1]  y == box[2] IN
    IF x >= w /\ y >= h THEN size
    ELSE IF x * h >= w * y
         THEN LET fl == (y * w) \div h
                  ce == CeilDiv(y * w, h)
              IN  <<round_aspect(y * w, h,
                        Abs(w * y - fl * h) <= Abs(w * y - ce * h)), y>>
         ELSE LET fl == (x * h) \div w
                  ce == CeilDiv(x * h, w)
              IN  <<x, round_aspect(x * h, w,
                        fl = 0 \/ Abs(w * fl - x * h) * ce <= Abs(w * ce - x * h) * fl)>>

\* Left (top) edge of the cell in column (row) k
CellOrigin(m, k, cell, g) == m + k * (cell + g)

\* Offset centring a thumbnail of extent t in a cell of extent cell
CentreOffset(cell, t) == (cell - t) \div 2

\* idx += 1
NextIdxSkip(idx) == idx + 2
NextIdx(idx) == idx + 1

\* The loop's exit test
PanelsExhaustedOffByOne(idx) == idx + 1 >= Len(panels)
PanelsExhausted(idx) == idx >= Len(panels)

\* The body of the inner loop for cell (r, c): thumbnail panels[idx] (Python
\* index idx, 0-based), centre it in the cell and paste it.  panels[idx]
\* raises IndexError when idx is past the end of the list.
PlacePanel(st, r, c) ==
    IF st.idx >= Len(panels) THEN [st EXCEPT !.err = "IndexError"]
    ELSE
    LET thumb  == thumbnail(panels[st.idx + 1], <<pw, ph>>)
        cell_x == CellOrigin(margin, c, pw, gutter) + CentreOffset(pw, thumb[1])
        cell_y == CellOrigin(margin, r, ph, gutter) + CentreOffset(ph, thumb[2])
    IN  [idx    |-> NextIdx(st.idx),
         err    |-> st.err,
         pastes |-> Append(st.pastes,
                       [panel |-> st.idx, r |-> r, c |-> c,
                        x |-> cell_x, y |-> cell_y,
                        w |-> thumb[1], h |-> thumb[2]])]

\* for c in range(cols): if idx >= len(panels): break ...
RECURSIVE ColumnLoop(_, _, _)
ColumnLoop(st, r, c) ==
    IF c >= grid[1] \/ st.err # "none" THEN st
    ELSE IF PanelsExhausted(st.idx) THEN st
    ELSE ColumnLoop(PlacePanel(st, r, c), r, c + 1)

\* for r in range(rows): ...
RECURSIVE RowLoop(_, _)
RowLoop(st, r) ==
    IF r >= grid[2] \/ st.err # "none" THEN st
    ELSE RowLoop(ColumnLoop(st, r, 0), r + 1)

\* The call: the page it returns is the sequence of pastes made onto the
\* background; an exception leaves no page.
layout_panels_on_page ==
    /\ pc = "ready"
    /\ LET st == RowLoop([idx |-> 0, err |-> "none", pastes |-> <<>>], 0)
       IN  /\ raised' = st.err
           /\ page' = IF st.err = "none" THEN st.pastes ELSE <<>>
    /\ pc' = "done"
    /\ UNCHANGED <<panels, page_size, margin, gutter, grid>>
    /\ UNCHANGED <<wrapVars, pages, basename, fs, dirs, writes, returned>>

\* Panel sizes and page sizes the calls are tried on
PanelSizes == {<<1, 1>>, <<4, 2>>, <<3, 7>>}
PageSizes == {<<7, 9>>, <<12, 10>>}

RECURSIVE SeqsUpTo(_, _)
SeqsUpTo(S, n) ==
    IF n = 0 THEN {<<>>}
    ELSE LET shorter == SeqsUpTo(S, n - 1)
         IN  shorter \cup {Append(s, e) : s \in {t \in shorter : Len(t) = n - 1}, e \in S}

\* The three calls of example(): six, two and one 1200x900 placeholders
ExampleCalls ==
    {[panels |-> [i \in 1..6 |-> <<1200, 900>>], grid |-> <<2, 3>>],
     [panels |-> [i \in 1..2 |-> <<1200, 900>>], grid |-> <<2, 1>>],
     [panels |-> [i \in 1..1 |-> <<1200, 900>>], grid |-> <<1, 1>>]}

InitLayout ==
    /\ pc = "ready"
    /\ page = <<>>
    /\ \/ /\ panels \in SeqsUpTo(PanelSizes, MaxPanels)
          /\ page_size \in PageSizes
          /\ margin \in 0..MaxMargin
          /\ gutter \in 0..MaxGutter
          /\ grid \in (1..MaxCols) \X (1..MaxRows)
       \/ \E call \in ExampleCalls :
             /\ panels = call.panels
             /\ grid = call.grid
             /\ page_size = <<PAGE_WIDTH, PAGE_HEIGHT>>
             /\ margin = DEFAULT_MARGIN
             /\ gutter = DEFAULT_GUTTER
    /\ pw >= 1 /\ ph >= 1
    /\ text = <<>> /\ max_width = 0 /\ lines = <<>>
    /\ pages = <<>> /\ basename = "page" /\ fs = <<>> /\ dirs = {} /\ writes = <<>>
    /\ returned = <<>> /\ raised = "none"

NextLayout == layout_panels_on_page

SpecLayout == InitLayout /\ [][NextLayout]_vars

-----------------------------------------------------------------------------
(* wrap_text *)

MaxTextLen == 6
MaxWidth == 7

\* Characters of the texts tried: a narrow and a wide letter, the space and a
\* second whitespace character
Whitespace == {" ", "\t"}
Chars == {"i", "W"} \cup Whitespace

\* font.getbbox(s)[2] - font.getbbox(s)[0]: the rendered width of s, the sum
\* of the advances of its characters
Advance(ch) == IF ch = "W" THEN 2 ELSE 1
RECURSIVE Width(_)
Width(s) == IF s = <<>> THEN 0 ELSE Advance(Head(s)) + Width(Tail(s))

\* text.split(): the maximal runs of non-whitespace characters, in order.
\* cur is the word being read, acc the words read so far.
RECURSIVE SplitFrom(_, _, _)
SplitFrom(s, cur, acc) ==
    IF s = <<>> THEN (IF cur = <<>> THEN acc ELSE Append(acc, cur))
    ELSE IF Head(s) \in Whitespace
         THEN SplitFrom(Tail(s), <<>>, IF cur = <<>> THEN acc ELSE Append(acc, cur))
         ELSE SplitFrom(Tail(s), Append(cur, Head(s)), acc)
split(s) == SplitFrom(s, <<>>, <<>>)

\* test = line + " " + w
ExtendNoSpace(line, w) == line \o w
Extend(line, w) == line \o <<" ">> \o w

\* if wwidth <= max_width
FitsStrict(wwidth, mw) == wwidth < mw
Fits(wwidth, mw) == wwidth <= mw

\* lines.append(line)
CommitDrops(ls, line) == ls
Commit(ls, line) == Append(ls, line)

\* for w in words[1:]: ...   (words 1-based here; i is the next word)
RECURSIVE WrapLoop(_, _, _, _, _)
WrapLoop(words, i, line, ls, mw) ==
    IF i > Len(words) THEN Append(ls, line)
    ELSE LET test == Extend(line, words[i])
         IN  IF Fits(Width(test), mw)
             THEN WrapLoop(words, i + 1, test, ls, mw)
             ELSE WrapLoop(words, i + 1, words[i], Commit(ls, line), mw)

WrapText(t, mw) ==
    LET words == split(t)
    IN  IF words = <<>> THEN <<>>
        ELSE WrapLoop(words, 2, words[1], <<>>, mw)

wrap_text ==
    /\ pc = "ready"
    /\ lines' = WrapText(text, max_width)
    /\ pc' = "done"
    /\ UNCHANGED <<text, max_width>>
    /\ UNCHANGED <<layoutVars, exportVars>>

\* max_width is (x1 - x0) - 2*padding in add_text_bubble: it can be negative
InitWrap ==
    /\ pc = "ready"
    /\ text \in SeqsUpTo(Chars, MaxTextLen)
    /\ max_width \in (-1)..MaxWidth
    /\ lines = <<>>
    /\ panels = <<>> /\ page_size = <<1, 1>> /\ margin = 0 /\ gutter = 0
    /\ grid = <<1, 1>> /\ page = <<>>
    /\ pages = <<>> /\ basename = "page" /\ fs = <<>> /\ dirs = {} /\ writes = <<>>
    /\ returned = <<>> /\ raised = "none"

NextWrap == wrap_text

SpecWrap == InitWrap /\ [][NextWrap]_vars

-----------------------------------------------------------------------------
(* Export: save_pages_as_images and save_pages_to_pdf *)

MaxPages == 10

\* The target directory and the PDF path example() passes
OUT_DIR == "out_pages"
PDF_PATH == "graphic_novel_demo.pdf"

\* A file left by an earlier run
OldFile == [fmt |-> "old"]

\* p.convert("RGB")
convert(p) == [p EXCEPT !.mode = "RGB"]

\* Writing a file creates it or replaces its content
WriteFile(f, path, content) ==
    [q \in DOMAIN f \cup {path} |-> IF q = path THEN content ELSE f[q]]

Digit(d) == <<"0", "1", "2", "3", "4", "5", "6", "7", "8", "9">>[d + 1]
RECURSIVE Decimal(_)
Decimal(n) == IF n < 10 THEN Digit(n) ELSE Decimal(n \div 10) \o Digit(n % 10)

\* f"{i:02d}": decimal, zero-padded on the left to at least two characters
Format02dPlain(i) == Decimal(i)
Format02d(i) == IF i < 10 THEN "0" \o Decimal(i) ELSE Decimal(i)

\* os.path.join(out_dir, f"{basename}_{i:02d}.png")
PngPath(out_dir, base, i) == out_dir \o "/" \o base \o "_" \o Format02d(i) \o ".png"

\* for i, p in enumerate(pages, start=1): save and collect the path
RECURSIVE SaveLoop(_, _)
SaveLoop(i, st) ==
    IF i > Len(pages) THEN st
    ELSE LET path == PngPath(OUT_DIR, basename, i)
         IN  SaveLoop(i + 1,
                 [fs     |-> WriteFile(st.fs, path, [fmt |-> "PNG", image |-> pages[i]]),
                  writes |-> Append(st.writes, path),
                  paths  |-> Append(st.paths, path)])

save_pages_as_images ==
    /\ pc = "ready"
    /\ dirs' = dirs \cup {OUT_DIR}
    /\ LET st == SaveLoop(1, [fs |-> fs, writes |-> writes, paths |-> <<>>])
       IN  /\ fs' = st.fs
           /\ writes' = st.writes
           /\ returned' = st.paths
    /\ raised' = "none"
    /\ pc' = "saved_images"
    /\ UNCHANGED <<pages, basename>>
    /\ UNCHANGED <<layoutVars, wrapVars>>

\* if not imgs
NoPagesNever(imgs) == FALSE
NoPages(imgs) == imgs = <<>>

\* first.save(path, "PDF", save_all=True, append_images=rest): the document
\* is the saved image followed by the appended ones
PdfDocumentFirstOnly(first, rest) == <<first>>
PdfDocument(first, rest) == <<first>> \o rest

save_pages_to_pdf ==
    /\ pc = "ready"
    /\ LET imgs == [i \in 1..Len(pages) |-> convert(pages[i])]
       IN  IF NoPages(imgs)
           THEN /\ raised' = "ValueError: No pages to save"
                /\ UNCHANGED <<fs, writes, returned>>
           ELSE IF Len(imgs) = 0       \* imgs[0] on an empty list
           THEN /\ raised' = "IndexError"
                /\ UNCHANGED <<fs, writes, returned>>
           ELSE /\ fs' = WriteFile(fs, PDF_PATH,
                            [fmt |-> "PDF", pages |-> PdfDocument(Head(imgs), Tail(imgs))])
                /\ writes' = Append(writes, PDF_PATH)
                /\ returned' = PDF_PATH
                /\ raised' = "none"
    /\ pc' = "saved_pdf"
    /\ UNCHANGED <<pages, basename, dirs>>
    /\ UNCHANGED <<layoutVars, wrapVars>>

\* Page images: one still with an alpha channel, one already RGB
Images == {[id |-> 1, mode |-> "RGBA"], [id |-> 2, mode |-> "RGB"]}

\* What is on disk before the call: nothing, an old PDF, or the directory with
\* an old first page and an old PDF
InitExport ==
    /\ pc = "ready"
    /\ pages \in SeqsUpTo(Images, MaxPages)
    /\ basename \in {"page", "comic"}
    /\ \/ dirs = {} /\ fs = <<>>
       \/ dirs = {} /\ fs = WriteFile(<<>>, PDF_PATH, OldFile)
       \/ /\ dirs = {OUT_DIR}
          /\ fs = WriteFile(WriteFile(<<>>, PDF_PATH, OldFile),
                            PngPath(OUT_DIR, "page", 1), OldFile)
    /\ writes = <<>> /\ returned = <<>> /\ raised = "none"
    /\ panels = <<>> /\ page_size = <<1, 1>> /\ margin = 0 /\ gutter = 0
    /\ grid = <<1, 1>> /\ page = <<>>
    /\ text = <<>> /\ max_width = 0 /\ lines = <<>>

NextExport == save_pages_as_images \/ save_pages_to_pdf

SpecExport == InitExport /\ [][NextExport]_vars

-----------------------------------------------------------------------------
(* Properties of layout_panels_on_page *)

Cols == grid[1]
Rows == grid[2]
LayoutDone == pc = "done"

\* The cell (r, c) as the rectangle [x0, x1) x [y0, y1)
CellRect(r, c) ==
    [x0 |-> margin + c * (pw + gutter), x1 |-> margin + c * (pw + gutter) + pw,
     y0 |-> margin + r * (ph + gutter), y1 |-> margin + r * (ph + gutter) + ph]
PasteRect(p) == [x0 |-> p.x, x1 |-> p.x + p.w, y0 |-> p.y, y1 |-> p.y + p.h]
Inside(a, b) == b.x0 <= a.x0 /\ a.x1 <= b.x1 /\ b.y0 <= a.y0 /\ a.y1 <= b.y1
Overlap(a, b) == a.x0 < b.x1 /\ b.x0 < a.x1 /\ a.y0 < b.y1 /\ b.y0 < a.y1

\* Paste number k (from 1) is panel k-1, made into the (k-1)-th cell in
\* row-major order, and lies inside that cell
RowMajorPaste(k) ==
    /\ page[k].panel = k - 1
    /\ page[k].r = (k - 1) \div Cols
    /\ page[k].c = (k - 1) % Cols
    /\ Inside(PasteRect(page[k]), CellRect((k - 1) \div Cols, (k - 1) % Cols))

\* C1: with more panels than cells, exactly the first cols*rows panels are
\* pasted, panel k into cell (k div cols, k mod cols); no later panel is
\* pasted and the call returns a page without raising.
C1_OverflowDropped ==
    (LayoutDone /\ Len(panels) > Cols * Rows) =>
        /\ raised = "none"
        /\ Len(page) = Cols * Rows
        /\ \A k \in 1..Len(page) : RowMajorPaste(k)
        /\ \A k \in 1..Len(page) : page[k].panel < Cols * Rows

C1_Witness ==
    /\ LayoutDone /\ Len(panels) = 5 /\ grid = <<2, 2>>
    /\ Len(page) = 4 /\ page[4].panel = 3 /\ page[4].r = 1 /\ page[4].c = 1

\* C2: with n <= cols*rows panels exactly n cells are filled, panel k in the
\* k-th cell in row-major order, each panel pasted once; every cell of index
\* >= n receives no paste and no paste touches it (it keeps the background).
C2_FillsFirstCells ==
    (LayoutDone /\ Len(panels) <= Cols * Rows) =>
        /\ raised = "none"
        /\ Len(page) = Len(panels)
        /\ \A k \in 1..Len(page) : RowMajorPaste(k)
        /\ \A i \in 0..(Len(panels) - 1) :
              Cardinality({k \in 1..Len(page) : page[k].panel = i}) = 1
        /\ \A r \in 0..(Rows - 1), c \in 0..(Cols - 1) :
              r * Cols + c >= Len(panels) =>
                 \A k \in 1..Len(page) :
                    /\ <<page[k].r, page[k].c>> # <<r, c>>
                    /\ ~Overlap(PasteRect(page[k]), CellRect(r, c))

C2_Witness ==
    /\ LayoutDone /\ Len(panels) = 3 /\ grid = <<2, 2>>
    /\ Len(page) = 3 /\ page[3].r = 1 /\ page[3].c = 0

\* C8: the cell size is the floor of the available extent divided by the
\* number of cells, the remainder (less than the number of cells) being left
\* unused beyond the last cell; the example's grid gives cells of 1150 x 1102
\* and places all six panels.
C8_CellSizeFloor ==
    LET availW == page_size[1] - 2 * margin - (Cols - 1) * gutter
        availH == page_size[2] - 2 * margin - (Rows - 1) * gutter
    IN  /\ Cols * pw <= availW /\ availW < Cols * pw + Cols
        /\ Rows * ph <= availH /\ availH < Rows * ph + Rows
        /\ CellRect(Rows - 1, Cols - 1).x1 = page_size[1] - margin - (availW - Cols * pw)
        /\ CellRect(Rows - 1, Cols - 1).y1 = page_size[2] - margin - (availH - Rows * ph)
        /\ (page_size = <<2480, 3508>> /\ margin = 80 /\ gutter = 20 /\ grid = <<2, 3>>) =>
              /\ <<pw, ph>> = <<1150, 1102>>
              /\ (LayoutDone /\ Len(panels) = 6) =>
                    /\ Len(page) = 6
                    /\ \A k \in 1..6 : RowMajorPaste(k)

C8_Witness ==
    /\ LayoutDone /\ page_size = <<2480, 3508>> /\ margin = 80 /\ gutter = 20
    /\ grid = <<2, 3>> /\ Len(panels) = 6 /\ Len(page) = 6
    /\ page[6].w = 1150

\* C9: with a positive cell size every pasted image is no larger than its
\* source panel and no larger than the cell, lies inside its own cell, centred
\* with offsets floor((pw - w)/2) and floor((ph - h)/2); pastes of different
\* panels do not overlap and all stay inside the page margins.
C9_PasteGeometry ==
    (LayoutDone /\ pw >= 1 /\ ph >= 1) =>
        \A k \in 1..Len(page) :
            LET p    == page[k]
                src  == panels[p.panel + 1]
                cell == CellRect(p.r, p.c)
            IN  /\ p.w <= src[1] /\ p.h <= src[2]
                /\ p.w <= pw /\ p.h <= ph
                /\ Inside(PasteRect(p), cell)
                /\ 2 * (p.x - cell.x0) <= pw - p.w /\ pw - p.w <= 2 * (p.x - cell.x0) + 1
                /\ 2 * (p.y - cell.y0) <= ph - p.h /\ ph - p.h <= 2 * (p.y - cell.y0) + 1
                /\ margin <= p.x /\ p.x + p.w <= page_size[1] - margin
                /\ margin <= p.y /\ p.y + p.h <= page_size[2] - margin
                /\ \A j \in 1..Len(page) :
                      j # k => ~Overlap(PasteRect(p), PasteRect(page[j]))

\* a panel downsampled to the cell height and centred (3x7), and one that is
\* smaller than the cell and left as it is (1x1)
C9_Witness ==
    /\ LayoutDone /\ Len(page) >= 2
    /\ \E k \in 1..Len(page) :
          /\ panels[page[k].panel + 1] = <<3, 7>>
          /\ page[k].h < 7 /\ page[k].h = ph
          /\ page[k].x > CellRect(page[k].r, page[k].c).x0
    /\ \E k \in 1..Len(page) :
          /\ panels[page[k].panel + 1] = <<1, 1>>
          /\ page[k].w = 1 /\ page[k].h = 1

-----------------------------------------------------------------------------
(* Properties of wrap_text *)

WrapDone == pc = "done"

RECURSIVE Join(_)
Join(ws) ==
    IF ws = <<>> THEN <<>>
    ELSE IF Len(ws) = 1 THEN ws[1]
    ELSE ws[1] \o <<" ">> \o Join(Tail(ws))

HasSpace(line) == \E i \in 1..Len(line) : line[i] = " "

\* C6: N >= 1 words and a max_width no less than the width of the words joined
\* by single spaces give exactly one line, the words joined by single spaces.
C6_WideBoxOneLine ==
    (WrapDone /\ split(text) # <<>> /\ max_width >= Width(Join(split(text)))) =>
        lines = <<Join(split(text))>>

\* three words on one line whose width is exactly max_width
C6_Witness ==
    /\ WrapDone /\ Len(split(text)) = 3
    /\ max_width = Width(Join(split(text)))
    /\ Len(lines) = 1

\* C7: a max_width smaller than the width of every word gives one line per
\* word: N words, N lines, line k being word k.
C7_NarrowBoxWordPerLine ==
    (WrapDone /\ split(text) # <<>>
       /\ \A k \in 1..Len(split(text)) : max_width < Width(split(text)[k])) =>
        /\ Len(lines) = Len(split(text))
        /\ \A k \in 1..Len(lines) : lines[k] = split(text)[k]
        /\ \A k \in 1..Len(lines) : Width(lines[k]) > max_width

C7_Witness ==
    /\ WrapDone /\ Len(split(text)) = 2
    /\ \A k \in 1..2 : max_width < Width(split(text)[k])
    /\ max_width = 1
    /\ Len(lines) = 2

\* C10: the lines joined by single spaces are the words of the text joined by
\* single spaces; blank text gives no lines, other text no empty line; a line
\* of two or more words is no wider than max_width.
C10_WrapKeepsWords ==
    WrapDone =>
        /\ Join(lines) = Join(split(text))
        /\ (\A i \in 1..Len(text) : text[i] \in Whitespace) => lines = <<>>
        /\ (\E i \in 1..Len(text) : text[i] \notin Whitespace) =>
              /\ Len(lines) >= 1
              /\ \A k \in 1..Len(lines) : lines[k] # <<>>
        /\ \A k \in 1..Len(lines) :
              HasSpace(lines[k]) => Width(lines[k]) <= max_width

\* a two-word line followed by a line of one word wider than max_width
C10_Witness ==
    /\ WrapDone /\ Len(lines) = 2
    /\ HasSpace(lines[1]) /\ ~HasSpace(lines[2])
    /\ Width(lines[2]) > max_width

-----------------------------------------------------------------------------
(* Properties of the export paths *)

\* C3: save_pages_to_pdf on an empty page list raises "No pages to save" and
\* writes nothing: every file is as it was before the call.
C3_EmptyPdfRejected ==
    [][(pc = "ready" /\ pc' = "saved_pdf" /\ pages = <<>>) =>
          /\ raised' = "ValueError: No pages to save"
          /\ fs' = fs
          /\ writes' = writes]_vars

\* the call was made on an empty list, with an older PDF on disk
C3_Witness ==
    /\ pc = "saved_pdf" /\ pages = <<>>
    /\ raised # "none"
    /\ PDF_PATH \in DOMAIN fs /\ fs[PDF_PATH] = OldFile

\* C4: save_pages_to_pdf on K >= 1 pages writes one document of K pages, the
\* i-th being the i-th input page (converted to RGB).
C4_PdfPagesInOrder ==
    (pc = "saved_pdf" /\ Len(pages) >= 1) =>
        /\ raised = "none"
        /\ writes = <<PDF_PATH>>
        /\ returned = PDF_PATH
        /\ fs[PDF_PATH].fmt = "PDF"
        /\ Len(fs[PDF_PATH].pages) = Len(pages)
        /\ \A i \in 1..Len(pages) :
              /\ fs[PDF_PATH].pages[i].id = pages[i].id
              /\ fs[PDF_PATH].pages[i].mode = "RGB"

C4_Witness ==
    /\ pc = "saved_pdf" /\ Len(pages) = 3
    /\ pages[1].id = 1 /\ pages[2].id = 2 /\ pages[3].id = 1
    /\ Len(fs[PDF_PATH].pages) = 3

\* The name the i-th page file has, for i < 100
PageFileName(i) ==
    OUT_DIR \o "/" \o basename \o "_" \o Digit(i \div 10) \o Digit(i % 10) \o ".png"

\* C5: save_pages_as_images on K pages writes K PNG files in input order, the
\* i-th page to <out_dir>/<basename>_<NN>.png, and returns these paths in
\* order; on an empty list it writes nothing and returns an empty list, the
\* directory being created all the same.
C5_NumberedPngFiles ==
    (pc = "saved_images") =>
        /\ raised = "none"
        /\ OUT_DIR \in dirs
        /\ Len(writes) = Len(pages)
        /\ returned = writes
        /\ \A i \in 1..Len(pages) :
              /\ writes[i] = PageFileName(i)
              /\ fs[writes[i]] = [fmt |-> "PNG", image |-> pages[i]]
        /\ Cardinality({writes[i] : i \in 1..Len(writes)}) = Len(pages)
        /\ pages = <<>> => (returned = <<>> /\ writes = <<>>)

C5_Witness ==
    /\ pc = "saved_images" /\ Len(pages) = 10
    /\ returned[1] = "out_pages/page_01.png"
    /\ returned[10] = "out_pages/page_10.png"

====
